---- MODULE Spec2Model ----
(***************************************************************************)
(* Model of src/app.py (PUT credit spread builder): the technical-level    *)
(* calculator, the risk assessment, and the strike / sizing / metrics      *)
(* computation done in main.                                               *)
(*                                                                         *)
(* Numbers.  The program computes in binary floating point; the model      *)
(* computes in exact integers.  Every price is an integer number of ticks, *)
(* TicksPerCent ticks to the cent, so that the pivot (a sum divided by 3)  *)
(* of whole-cent prices is exact.  round(x, 2) is modelled by what it      *)
(* does: rounding to a whole cent, where an exact tie may go either way    *)
(* (the floating-point product is never exactly on the tie).               *)
(***************************************************************************)
EXTENDS Integers, Sequences, FiniteSets, TLC

VARIABLES
    pc,             \* position of the running function
    today,          \* datetime.date.today(), as a day number
    hist,           \* price history: "None" or a sequence of bars
    levels,         \* result of calculate_support_resistance
    events,         \* argument of assess_risk: sequence of events
    dte,            \* days to expiration
    current_price,  \* argument of assess_risk / last close in main
    support_levels, \* argument of assess_risk
    iv_percentile,  \* argument of assess_risk
    i,              \* index of the event the loop of assess_risk is at
    risk_score,     \* assess_risk: local risk_score, then the returned score
    reasons,        \* assess_risk: local reasons, then the returned list
    risk_level,     \* assess_risk: returned level
    ar_ret,         \* where assess_risk returns to
    ticker,         \* sidebar: stock ticker
    capital,        \* sidebar: capital allocated, in dollars
    max_risk_pct,   \* sidebar: max risk % per trade
    strike_distance,\* sidebar: short strike distance (%)
    spread_width,   \* sidebar: spread width (%)
    short_strike,   \* main: suggested short strike
    long_strike,    \* main: suggested long strike
    premium,        \* main: mock premium per share
    contracts,      \* main: contract count
    spread_metrics, \* main: result of calculate_put_spread
    pl_curve,       \* main: result of generate_pl_curve
    error,          \* the exception that ended main, "" if none
    info,           \* get_stock_data: the info it holds, then returns
    attempt,        \* get_stock_data: index of the next retry attempt
    info_results    \* what stock.info did at each attempt so far

sidebar == <<ticker, capital, max_risk_pct, strike_distance, spread_width>>

plan == <<short_strike, long_strike, premium, contracts, spread_metrics,
          pl_curve, error>>

fetch == <<info, attempt, info_results>>

vars == <<pc, today, hist, levels, events, dte, current_price, support_levels,
          iv_percentile, i, risk_score, reasons, risk_level, ar_ret,
          sidebar, plan, fetch>>

----------------------------------------------------------------------------
(* Bounds of the model *)

MaxEvents == 2

MaxBars == 2

MaxContracts == 2

----------------------------------------------------------------------------
(* Helpers *)

Abs(x) == IF x < 0 THEN -x ELSE x

Min2(a, b) == IF a < b THEN a ELSE b

Max2(a, b) == IF a > b THEN a ELSE b

SeqsUpTo(S, n) == UNION {[1..k -> S] : k \in 0..n}

----------------------------------------------------------------------------
(* Units: TicksPerCent ticks to the cent; prices and money are in ticks *)

TicksPerCent == 3

TicksPerDollar == 100 * TicksPerCent

----------------------------------------------------------------------------
(* calculate_support_resistance *)

\* a price history: None, or a DataFrame of bars (possibly empty)
HistNone == [none |-> TRUE, bars |-> <<>>]

Hist(bars) == [none |-> FALSE, bars |-> bars]

Bar(high, low, close) == [High |-> high, Low |-> low, Close |-> close]

\* hist['High'].max()
RECURSIVE MaxHighFrom(_, _, _)
MaxHighFrom(bars, k, best) ==
    IF k > Len(bars) THEN best
    ELSE MaxHighFrom(bars, k + 1, Max2(best, bars[k].High))

MaxHigh_m(bars) == bars[1].High
MaxHigh(bars) == MaxHighFrom(bars, 2, bars[1].High)

\* hist['Low'].min()
RECURSIVE MinLowFrom(_, _, _)
MinLowFrom(bars, k, best) ==
    IF k > Len(bars) THEN best
    ELSE MinLowFrom(bars, k + 1, Min2(best, bars[k].Low))

MinLow(bars) == MinLowFrom(bars, 2, bars[1].Low)

\* closes.iloc[-1]
LastClose(bars) == bars[Len(bars)].Close

ZeroLevels == [pivot |-> 0, support |-> <<0, 0>>, resistance |-> <<0, 0>>]

\* the pivot-point levels of a non-empty history; the division by 3 is exact
\* on whole-cent prices
PivotLevels_m(bars) ==
    LET hi == MaxHigh(bars)
        lo == MinLow(bars)
        pivot == (hi + lo + LastClose(bars)) \div 3
        support1 == (2 * pivot) - hi
        resistance1 == (2 * pivot) - lo
        support2 == pivot - (hi - lo)
        resistance2 == pivot + (hi - lo)
    IN [pivot |-> pivot,
        support |-> <<support2, support1>>,
        resistance |-> <<resistance2, resistance1>>]
PivotLevels(bars) ==
    LET hi == MaxHigh(bars)
        lo == MinLow(bars)
        pivot == (hi + lo + LastClose(bars)) \div 3
        support1 == (2 * pivot) - hi
        resistance1 == (2 * pivot) - lo
        support2 == pivot - (hi - lo)
        resistance2 == pivot + (hi - lo)
    IN [pivot |-> pivot,
        support |-> <<support1, support2>>,
        resistance |-> <<resistance1, resistance2>>]

CalculateSupportResistance(h) ==
    IF h.none \/ Len(h.bars) = 0 THEN ZeroLevels ELSE PivotLevels(h.bars)

----------------------------------------------------------------------------
(* assess_risk *)

Reason(kind, event, num) == [kind |-> kind, event |-> event, num |-> num]

\* if current_price == 0
InvalidPrice_m(cp) == cp < 0
InvalidPrice(cp) == cp = 0

\* days_until_event = (event['date'] - datetime.date.today()).days
DaysUntil(e, t) == e.date - t

\* if 0 <= days_until_event <= dte
EventInWindow_m(e, t, d) == 0 < DaysUntil(e, t) /\ DaysUntil(e, t) <= d
EventInWindow(e, t, d) == 0 <= DaysUntil(e, t) /\ DaysUntil(e, t) <= d

\* 40 if event['importance'] == 'High' else 20
EventWeight(e) == IF e.importance = "High" THEN 40 ELSE 20

\* reasons.append(...)
AddReason_m(rs, r) == <<r>> \o rs
AddReason(rs, r) == Append(rs, r)

\* min(support_levels, key=lambda x: abs(x - current_price)): the first
\* element with the smallest key
RECURSIVE ClosestFrom(_, _, _, _)
ClosestFrom(s, cp, k, best) ==
    IF k > Len(s) THEN best
    ELSE ClosestFrom(s, cp, k + 1,
                     IF Abs(s[k] - cp) < Abs(best - cp) THEN s[k] ELSE best)

ClosestSupport_m(s, cp) == s[1]
ClosestSupport(s, cp) == ClosestFrom(s, cp, 2, s[1])

\* (current_price - closest_support) / current_price * 100 < k,
\* for current_price # 0, without the division
DistancePctBelow(cp, cs, k) ==
    IF cp > 0 THEN (cp - cs) * 100 < k * cp
    ELSE (cp - cs) * 100 > k * cp

\* the branch of the support check: 30, 15 or 0
SupportDelta(cp, cs) ==
    IF DistancePctBelow(cp, cs, 2) THEN 30
    ELSE IF DistancePctBelow(cp, cs, 5) THEN 15
    ELSE 0

\* the branch of the IV check: -10, +10 or 0
IVDelta_m(iv) == IF iv >= 70 THEN -10 ELSE IF iv < 30 THEN 10 ELSE 0
IVDelta(iv) == IF iv > 70 THEN -10 ELSE IF iv < 30 THEN 10 ELSE 0

\* risk_score = max(0, min(100, risk_score))
Clamp_m(s) == Max2(0, s)
Clamp(s) == Max2(0, Min2(100, s))

\* the risk level of a clamped score
RiskLevel(s) == IF s >= 50 THEN "High" ELSE IF s >= 25 THEN "Medium" ELSE "Low"

AR_Unchanged == UNCHANGED <<today, hist, levels, events, dte, current_price,
                            support_levels, iv_percentile, ar_ret, sidebar, fetch, plan>>

\* entry of assess_risk: the guard on the price, then the initial locals
AR_Entry ==
    /\ pc = "ar_entry"
    /\ IF InvalidPrice(current_price)
       THEN /\ risk_level' = "High"
            /\ risk_score' = 100
            /\ reasons' = <<Reason("invalid_price", "", 0)>>
            /\ pc' = ar_ret
       ELSE /\ risk_level' = ""
            /\ risk_score' = 0
            /\ reasons' = <<>>
            /\ pc' = IF Len(events) = 0 THEN "ar_support" ELSE "ar_events"
    /\ i' = 1
    /\ AR_Unchanged

\* one iteration of "for event in events"
AR_Event ==
    /\ pc = "ar_events"
    /\ i <= Len(events)
    /\ LET e == events[i] IN
       IF EventInWindow(e, today, dte)
       THEN /\ risk_score' = risk_score + EventWeight(e)
            /\ reasons' = AddReason(reasons,
                              Reason("event", e.event, DaysUntil(e, today)))
       ELSE UNCHANGED <<risk_score, reasons>>
    /\ i' = i + 1
    /\ pc' = IF i + 1 > Len(events) THEN "ar_support" ELSE "ar_events"
    /\ UNCHANGED risk_level
    /\ AR_Unchanged

\* the distance-to-support check
AR_Support ==
    /\ pc = "ar_support"
    /\ IF Len(support_levels) > 0
       THEN LET cs == ClosestSupport(support_levels, current_price)
                d  == SupportDelta(current_price, cs) IN
            /\ risk_score' = risk_score + d
            /\ reasons' = IF d = 30
                            THEN AddReason(reasons, Reason("close_support", "", cs))
                          ELSE IF d = 15
                            THEN AddReason(reasons, Reason("moderate_support", "", cs))
                          ELSE reasons
       ELSE UNCHANGED <<risk_score, reasons>>
    /\ pc' = "ar_iv"
    /\ UNCHANGED <<i, risk_level>>
    /\ AR_Unchanged

\* the IV percentile check
AR_IV ==
    /\ pc = "ar_iv"
    /\ LET d == IVDelta(iv_percentile) IN
       /\ risk_score' = risk_score + d
       /\ reasons' = IF d = -10 THEN AddReason(reasons, Reason("high_iv", "", 0))
                     ELSE IF d = 10 THEN AddReason(reasons, Reason("low_iv", "", 0))
                     ELSE reasons
    /\ pc' = "ar_final"
    /\ UNCHANGED <<i, risk_level>>
    /\ AR_Unchanged

\* clamp, classify, return
AR_Final ==
    /\ pc = "ar_final"
    /\ risk_score' = Clamp(risk_score)
    /\ risk_level' = RiskLevel(Clamp(risk_score))
    /\ pc' = ar_ret
    /\ UNCHANGED <<i, reasons>>
    /\ AR_Unchanged

----------------------------------------------------------------------------
(* Specification of assess_risk on its own: arguments drawn from small sets *)

NoSidebar ==
    /\ ticker = ""
    /\ capital = 0
    /\ max_risk_pct = 0
    /\ strike_distance = 0
    /\ spread_width = 0

\* info values: {} (empty), the provider's info, the minimal record, None
EmptyInfo == [kind |-> "empty", shortName |-> "", regularMarketPrice |-> 0]

FullInfo(tk) == [kind |-> "full", shortName |-> tk, regularMarketPrice |-> 0]

MinimalInfo(tk, price) ==
    [kind |-> "minimal", shortName |-> tk, regularMarketPrice |-> price]

NoneInfo == [kind |-> "none", shortName |-> "", regularMarketPrice |-> 0]

NoFetch ==
    /\ info = EmptyInfo
    /\ attempt = 0
    /\ info_results = <<>>

NoMetrics ==
    [max_loss |-> 0, max_profit |-> 0, collateral |-> 0, roi |-> <<0, 1>>,
     capital_usage |-> <<0, 1>>, break_even |-> 0, spread_width |-> 0]

NoPlan ==
    /\ short_strike = 0
    /\ long_strike = 0
    /\ premium = 0
    /\ contracts = 0
    /\ spread_metrics = NoMetrics
    /\ pl_curve = <<>>
    /\ error = ""

RiskTodays == {100}

\* event dates: yesterday, today, in 5 days, in 10 days
RiskEventDates == {99, 100, 105, 110}

RiskDTEs == {5, 14}

EventName(imp) == IF imp = "High" THEN "Earnings Release" ELSE "Fed Meeting"

RiskEventUniverse ==
    {[date |-> d, event |-> EventName(imp), importance |-> imp] :
        d \in RiskEventDates, imp \in {"High", "Medium"}}

RiskPrices == {0, 100}

RiskSupports == {95, 96, 98, 99, 102, 105}

RiskIVs == {29, 30, 70, 71}

InitRisk ==
    /\ pc = "ar_entry"
    /\ ar_ret = "ar_done"
    /\ today \in RiskTodays
    /\ hist = HistNone
    /\ levels = ZeroLevels
    /\ events \in SeqsUpTo(RiskEventUniverse, MaxEvents)
    /\ dte \in RiskDTEs
    /\ current_price \in RiskPrices
    /\ support_levels \in SeqsUpTo(RiskSupports, 2)
    /\ iv_percentile \in RiskIVs
    /\ i = 1
    /\ risk_score = 0
    /\ reasons = <<>>
    /\ risk_level = ""
    /\ NoSidebar
    /\ NoPlan
    /\ NoFetch

NextRisk == AR_Entry \/ AR_Event \/ AR_Support \/ AR_IV \/ AR_Final

SpecRisk == InitRisk /\ [][NextRisk]_vars

----------------------------------------------------------------------------
(* Specification of calculate_support_resistance on its own *)

SR_Call ==
    /\ pc = "sr_entry"
    /\ levels' = CalculateSupportResistance(hist)
    /\ pc' = "sr_done"
    /\ UNCHANGED <<today, hist, events, dte, current_price, support_levels,
                   iv_percentile, i, risk_score, reasons, risk_level, ar_ret,
                   sidebar, fetch, plan>>

\* prices of the bars, in cents
LevelCents == {1, 2, 3}

\* well-formed daily bars: low <= close <= high, whole cents
LevelBars ==
    {b \in {Bar(h * TicksPerCent, l * TicksPerCent, c * TicksPerCent) :
                h \in LevelCents, l \in LevelCents, c \in LevelCents} :
        b.Low <= b.Close /\ b.Close <= b.High}

InitLevels ==
    /\ pc = "sr_entry"
    /\ hist \in {HistNone} \cup {Hist(b) : b \in SeqsUpTo(LevelBars, MaxBars)}
    /\ levels = ZeroLevels
    /\ today = 0
    /\ events = <<>>
    /\ dte = 0
    /\ current_price = 0
    /\ support_levels = <<>>
    /\ iv_percentile = 0
    /\ i = 1
    /\ risk_score = 0
    /\ reasons = <<>>
    /\ risk_level = ""
    /\ ar_ret = ""
    /\ NoSidebar
    /\ NoPlan
    /\ NoFetch

NextLevels == SR_Call

SpecLevels == InitLevels /\ [][NextLevels]_vars

----------------------------------------------------------------------------
(* Inputs of main: the sidebar, fetch, the clock and the data sources *)

\* datetime.date.today(): before and after the two fixed event dates
MainTodays == {250, 261}

MainTickers == {"SPY", "ABNB"}

\* st.slider("Days to Expiration (DTE)", 5..45)
MainDTEs == {5, 14}

\* st.number_input("Capital Allocated ($)", min 100)
MainCapitals == {1000, 100000}

\* st.slider("Max Risk % per Trade", 1..10)
MainRiskPcts == {3, 10}

\* st.slider("Short Strike Distance (%)", 1..10)
MainStrikeDistances == {5}

\* st.slider("Spread Width (%)", 1..10)
MainSpreadWidths == {1, 5}

\* daily bars the data source may deliver: a zero quote, a 10-cent stock
\* and a 100-dollar stock (high 102.00, low 99.00, close 100.00)
MainBars ==
    {Bar(0, 0, 0),
     Bar(10 * TicksPerCent, 10 * TicksPerCent, 10 * TicksPerCent),
     Bar(10200 * TicksPerCent, 9900 * TicksPerCent, 10000 * TicksPerCent)}

\* a real next earnings date, as days from today
RealEarningsOffsets == {1}

\* random.randint(30, 80)
MainIVs == {30, 71, 80}

----------------------------------------------------------------------------
(* get_upcoming_events *)

\* datetime.date(2025, 9, 10) and datetime.date(2025, 9, 17) as day numbers
\* of the year 2025
InvestorDay == 253

FedMeetingDay == 260

\* the mock earnings dates: today + 7, 21 or 35 days
MockEarningsOffsets == {7, 21, 35}

Event(date, name, importance) ==
    [date |-> date, event |-> name, importance |-> importance]

\* list.sort(key=date): stable insertion by date
RECURSIVE InsertByDate(_, _)
InsertByDate(sorted, e) ==
    IF Len(sorted) = 0 THEN <<e>>
    ELSE IF sorted[Len(sorted)].date <= e.date THEN Append(sorted, e)
    ELSE Append(InsertByDate(SubSeq(sorted, 1, Len(sorted) - 1), e),
                sorted[Len(sorted)])

RECURSIVE SortByDate(_)
SortByDate(es) ==
    IF Len(es) = 0 THEN <<>>
    ELSE InsertByDate(SortByDate(SubSeq(es, 1, Len(es) - 1)), es[Len(es)])

\* the events after the earnings event: investor day (ABNB only), Fed meeting
UpcomingEvents(t, tk, earnings) ==
    SortByDate(<<earnings>>
               \o (IF tk = "ABNB" /\ InvestorDay > t
                     THEN <<Event(InvestorDay, "Investor Day", "High")>> ELSE <<>>)
               \o (IF FedMeetingDay > t
                     THEN <<Event(FedMeetingDay, "Fed Meeting", "Medium")>> ELSE <<>>))

----------------------------------------------------------------------------
(* main: strikes, premium, position sizing *)

\* round(x, 2) of x = n / d cents: the nearest whole cent, in ticks; an exact
\* tie may go either way
RoundCents(n, d) ==
    LET q == n \div d
        r == n % d
    IN IF 2 * r < d THEN {q * TicksPerCent}
       ELSE IF 2 * r > d THEN {(q + 1) * TicksPerCent}
       ELSE {q * TicksPerCent, (q + 1) * TicksPerCent}

\* round(current_price * (1 - strike_distance/100), 2)
ShortStrikes(cp, sd) == RoundCents(cp * (100 - sd), 100 * TicksPerCent)

\* round(short_strike * (1 - spread_width/100), 2)
LongStrikes(ss, sw) == RoundCents(ss * (100 - sw), 100 * TicksPerCent)

\* the mock premium is 35% of the width
PremiumPct == 35

\* round((short_strike - long_strike) * 0.35, 2)
Premiums(ss, ls) == RoundCents((ss - ls) * PremiumPct, 100 * TicksPerCent)

\* max_risk_amount = capital * (max_risk_pct / 100), in ticks
MaxRiskAmount(cap, pct) == (cap * TicksPerDollar * pct) \div 100

\* max_loss_per_contract = (spread_width_dollar - premium) * 100
MaxLossPerContract(ss, ls, pr) == ((ss - ls) - pr) * 100

\* int(a / b) for b # 0: truncation towards zero
TruncDiv(a, b) ==
    IF (a >= 0) = (b > 0) THEN Abs(a) \div Abs(b) ELSE -(Abs(a) \div Abs(b))

\* contracts = max(1, int(max_risk_amount / max_loss_per_contract))
ContractCount_m(risk, loss) == TruncDiv(risk, loss)
ContractCount(risk, loss) == Max2(1, TruncDiv(risk, loss))

\* calculate_put_spread; roi and capital_usage are kept as <<numerator,
\* denominator>> of the percentage
CalculatePutSpread_mbe(cp, ss, ls, pr, n, cap) ==
    LET width == ss - ls
        max_loss == (width - pr) * 100 * n
        max_profit == pr * 100 * n
        collateral == width * 100 * n
    IN [max_loss |-> max_loss,
        max_profit |-> max_profit,
        collateral |-> collateral,
        roi |-> <<max_profit * 100, collateral>>,
        capital_usage |-> <<collateral * 100, cap * TicksPerDollar>>,
        break_even |-> ss + pr,
        spread_width |-> width]
CalculatePutSpread_mloss(cp, ss, ls, pr, n, cap) ==
    LET width == ss - ls
        max_loss == width * 100 * n
        max_profit == pr * 100 * n
        collateral == width * 100 * n
    IN [max_loss |-> max_loss,
        max_profit |-> max_profit,
        collateral |-> collateral,
        roi |-> <<max_profit * 100, collateral>>,
        capital_usage |-> <<collateral * 100, cap * TicksPerDollar>>,
        break_even |-> ss - pr,
        spread_width |-> width]
CalculatePutSpread(cp, ss, ls, pr, n, cap) ==
    LET width == ss - ls
        max_loss == (width - pr) * 100 * n
        max_profit == pr * 100 * n
        collateral == width * 100 * n
    IN [max_loss |-> max_loss,
        max_profit |-> max_profit,
        collateral |-> collateral,
        roi |-> <<max_profit * 100, collateral>>,
        capital_usage |-> <<collateral * 100, cap * TicksPerDollar>>,
        break_even |-> ss - pr,
        spread_width |-> width]

\* the payoff of one price point in generate_pl_curve
Pnl_m(price, ss, ls, pr, n) ==
    IF price >= ss THEN pr * 100 * n
    ELSE IF price <= ls THEN (0 - (ss - ls)) * 100 * n
    ELSE (pr - (ss - price)) * 100 * n
Pnl(price, ss, ls, pr, n) ==
    IF price >= ss THEN pr * 100 * n
    ELSE IF price <= ls THEN (pr - (ss - ls)) * 100 * n
    ELSE (pr - (ss - price)) * 100 * n

\* np.linspace(..., 100)
NumPoints == 100

\* generate_pl_curve: the k-th of NumPoints evenly spaced prices from
\* long_strike - 5 to current_price + 10, and its payoff, both multiplied by
\* NumPoints - 1 to stay in integers
CurvePrice(cp, ls, k) ==
    (NumPoints - 1) * (ls - 5 * TicksPerDollar)
        + (k - 1) * ((cp + 10 * TicksPerDollar) - (ls - 5 * TicksPerDollar))

GeneratePlCurve(cp, ss, ls, pr, n) ==
    [price_points |-> [k \in 1..NumPoints |-> CurvePrice(cp, ls, k)],
     pnl_points |-> [k \in 1..NumPoints |->
                       Pnl(CurvePrice(cp, ls, k), (NumPoints - 1) * ss,
                           (NumPoints - 1) * ls, (NumPoints - 1) * pr, n)]]

----------------------------------------------------------------------------
(* main *)

\* hist, info = get_stock_data(ticker): None, or a non-empty history;
\* current_price is the last close
M_Load ==
    /\ pc = "m_start"
    /\ \E h \in {HistNone} \cup {Hist(b) : b \in SeqsUpTo(MainBars, MaxBars) \ {<<>>}} :
          /\ hist' = h
          /\ IF h.none
             THEN /\ pc' = "m_no_data"
                  /\ UNCHANGED current_price
             ELSE /\ pc' = "m_events"
                  /\ current_price' = IF Len(h.bars) > 0 THEN LastClose(h.bars) ELSE 0
    /\ UNCHANGED <<today, levels, events, dte, support_levels, iv_percentile, i,
                   risk_score, reasons, risk_level, ar_ret, sidebar, fetch, plan>>

\* events = get_upcoming_events(ticker): a real or a mock earnings date first
M_Events ==
    /\ pc = "m_events"
    /\ \E e \in {Event(today + o, "Earnings Release", "High") : o \in RealEarningsOffsets}
               \cup {Event(today + o, "Earnings Release (Estimated)", "High") :
                        o \in MockEarningsOffsets} :
          events' = UpcomingEvents(today, ticker, e)
    /\ pc' = "m_levels"
    /\ UNCHANGED <<today, hist, levels, dte, current_price, support_levels,
                   iv_percentile, i, risk_score, reasons, risk_level, ar_ret,
                   sidebar, fetch, plan>>

\* levels = calculate_support_resistance(hist)
M_Levels ==
    /\ pc = "m_levels"
    /\ levels' = CalculateSupportResistance(hist)
    /\ pc' = "m_iv"
    /\ UNCHANGED <<today, hist, events, dte, current_price, support_levels,
                   iv_percentile, i, risk_score, reasons, risk_level, ar_ret,
                   sidebar, fetch, plan>>

\* iv_percentile = calculate_iv_percentile(ticker), then the call of
\* assess_risk(events, dte, current_price, levels['support'], iv_percentile)
M_IV ==
    /\ pc = "m_iv"
    /\ iv_percentile' \in MainIVs
    /\ support_levels' = levels.support
    /\ ar_ret' = "m_strikes"
    /\ pc' = "ar_entry"
    /\ UNCHANGED <<today, hist, levels, events, dte, current_price, i,
                   risk_score, reasons, risk_level, sidebar, fetch, plan>>

\* short_strike, long_strike, premium
M_Strikes ==
    /\ pc = "m_strikes"
    /\ \E ss \in ShortStrikes(current_price, strike_distance) :
       \E ls \in LongStrikes(ss, spread_width) :
       \E pr \in Premiums(ss, ls) :
          /\ short_strike' = ss
          /\ long_strike' = ls
          /\ premium' = pr
    /\ pc' = "m_sizing"
    /\ UNCHANGED <<today, hist, levels, events, dte, current_price,
                   support_levels, iv_percentile, i, risk_score, reasons,
                   risk_level, ar_ret, sidebar, fetch, contracts, spread_metrics,
                   pl_curve, error>>

\* position sizing; a zero max_loss_per_contract makes the division fail:
\* ZeroDivisionError on Python floats, OverflowError from int(inf) on numpy
\* floats
M_Sizing ==
    /\ pc = "m_sizing"
    /\ LET risk == MaxRiskAmount(capital, max_risk_pct)
           loss == MaxLossPerContract(short_strike, long_strike, premium)
       IN IF loss = 0
          THEN /\ error' \in {"ZeroDivisionError", "OverflowError"}
               /\ pc' = "m_crashed"
               /\ UNCHANGED contracts
          ELSE /\ contracts' = ContractCount(risk, loss)
               /\ pc' = "m_metrics"
               /\ UNCHANGED error
    /\ UNCHANGED <<today, hist, levels, events, dte, current_price,
                   support_levels, iv_percentile, i, risk_score, reasons,
                   risk_level, ar_ret, sidebar, fetch, short_strike, long_strike,
                   premium, spread_metrics, pl_curve>>

\* spread_metrics = calculate_put_spread(...)
M_Metrics ==
    /\ pc = "m_metrics"
    /\ spread_metrics' = CalculatePutSpread(current_price, short_strike,
                                            long_strike, premium, contracts, capital)
    /\ pc' = "m_curve"
    /\ UNCHANGED <<today, hist, levels, events, dte, current_price,
                   support_levels, iv_percentile, i, risk_score, reasons,
                   risk_level, ar_ret, sidebar, fetch, short_strike, long_strike,
                   premium, contracts, pl_curve, error>>

\* price_points, pnl_points = generate_pl_curve(...); the layout follows
M_Curve ==
    /\ pc = "m_curve"
    /\ pl_curve' = GeneratePlCurve(current_price, short_strike, long_strike,
                                   premium, contracts)
    /\ pc' = "m_done"
    /\ UNCHANGED <<today, hist, levels, events, dte, current_price,
                   support_levels, iv_percentile, i, risk_score, reasons,
                   risk_level, ar_ret, sidebar, fetch, short_strike, long_strike,
                   premium, contracts, spread_metrics, error>>

Init ==
    /\ pc = "m_start"
    /\ today \in MainTodays
    /\ ticker \in MainTickers
    /\ dte \in MainDTEs
    /\ capital \in MainCapitals
    /\ max_risk_pct \in MainRiskPcts
    /\ strike_distance \in MainStrikeDistances
    /\ spread_width \in MainSpreadWidths
    /\ hist = HistNone
    /\ levels = ZeroLevels
    /\ events = <<>>
    /\ current_price = 0
    /\ support_levels = <<>>
    /\ iv_percentile = 0
    /\ i = 1
    /\ risk_score = 0
    /\ reasons = <<>>
    /\ risk_level = ""
    /\ ar_ret = ""
    /\ NoPlan
    /\ NoFetch

Next ==
    \/ M_Load
    \/ M_Events
    \/ M_Levels
    \/ M_IV
    \/ AR_Entry
    \/ AR_Event
    \/ AR_Support
    \/ AR_IV
    \/ AR_Final
    \/ M_Strikes
    \/ M_Sizing
    \/ M_Metrics
    \/ M_Curve

Spec == Init /\ [][Next]_vars

----------------------------------------------------------------------------
(* Specification of calculate_put_spread and generate_pl_curve on their own: *)
(* the two calls of main, on arguments drawn from small sets                *)

\* strikes, in cents
SpreadStrikeCents == {9000, 9025, 9500}

\* premiums, in cents: none, inside the widths, a whole width, above it
SpreadPremiumCents == {0, 25, 166, 475, 500}

\* current prices, in cents
SpreadPriceCents == {9000, 10000}

InitSpread ==
    /\ pc = "m_metrics"
    /\ current_price \in {c * TicksPerCent : c \in SpreadPriceCents}
    /\ short_strike \in {c * TicksPerCent : c \in SpreadStrikeCents}
    /\ long_strike \in {c * TicksPerCent : c \in SpreadStrikeCents}
    /\ long_strike <= short_strike
    /\ premium \in {c * TicksPerCent : c \in SpreadPremiumCents}
    /\ contracts \in 1..MaxContracts
    /\ capital = 1000
    /\ ticker = "SPY"
    /\ max_risk_pct = 3
    /\ strike_distance = 5
    /\ spread_width = 5
    /\ spread_metrics = NoMetrics
    /\ pl_curve = <<>>
    /\ error = ""
    /\ today = 0
    /\ hist = HistNone
    /\ levels = ZeroLevels
    /\ events = <<>>
    /\ dte = 0
    /\ support_levels = <<>>
    /\ iv_percentile = 0
    /\ i = 1
    /\ risk_score = 0
    /\ reasons = <<>>
    /\ risk_level = ""
    /\ ar_ret = ""
    /\ NoFetch

NextSpread == M_Metrics \/ M_Curve

SpecSpread == InitSpread /\ [][NextSpread]_vars

----------------------------------------------------------------------------
(* Properties of generate_pl_curve and calculate_put_spread, checked under  *)
(* SpecSpread                                                               *)

\* the curve's prices and payoffs are kept multiplied by CurveScale
CurveScale == NumPoints - 1

MaxProfitOfPlan == premium * 100 * contracts

MaxLossOfPlan == (premium - (short_strike - long_strike)) * 100 * contracts

\* C11: with longStrike <= shortStrike the payoff of every curve price
\* >= shortStrike is premium*100*contracts, of every curve price <=
\* longStrike is (premium - width)*100*contracts, in between it is
\* (premium - (shortStrike - p))*100*contracts, and the payoff has no jump
\* at either strike: it takes the max-profit value at shortStrike, the
\* max-loss value at longStrike, and one tick of price next to a strike
\* moves it by at most 100*contracts.
C11_PayoffPieces ==
    (pc = "m_done" /\ long_strike <= short_strike) =>
        /\ \A k \in 1..NumPoints :
               LET p == pl_curve.price_points[k]
                   v == pl_curve.pnl_points[k] IN
               /\ p >= CurveScale * short_strike => v = CurveScale * MaxProfitOfPlan
               /\ p <= CurveScale * long_strike => v = CurveScale * MaxLossOfPlan
               /\ (p > CurveScale * long_strike /\ p < CurveScale * short_strike) =>
                      v = (CurveScale * premium - (CurveScale * short_strike - p))
                              * 100 * contracts
        /\ Pnl(short_strike, short_strike, long_strike, premium, contracts)
               = MaxProfitOfPlan
        /\ Pnl(long_strike, short_strike, long_strike, premium, contracts)
               = MaxLossOfPlan
        /\ \A q \in {short_strike - 1, short_strike, long_strike - 1, long_strike} :
               Abs(Pnl(q + 1, short_strike, long_strike, premium, contracts)
                     - Pnl(q, short_strike, long_strike, premium, contracts))
                   <= 100 * contracts

\* a curve with points below the long strike, between the strikes and above
\* the short strike
C11_Witness ==
    /\ pc = "m_done"
    /\ long_strike < short_strike
    /\ premium > 0
    /\ contracts = 2
    /\ \E k \in 1..NumPoints :
           /\ pl_curve.price_points[k] > CurveScale * long_strike
           /\ pl_curve.price_points[k] < CurveScale * short_strike
           /\ pl_curve.pnl_points[k] > CurveScale * MaxLossOfPlan
           /\ pl_curve.pnl_points[k] < CurveScale * MaxProfitOfPlan
    /\ pl_curve.pnl_points[1] = CurveScale * MaxLossOfPlan
    /\ pl_curve.pnl_points[NumPoints] = CurveScale * MaxProfitOfPlan

\* C12: break_even = shortStrike - premium is the price of zero profit/loss:
\* for 0 <= premium <= shortStrike - longStrike and contracts >= 1 the payoff
\* rule of generate_pl_curve gives 0 at price = break_even.
C12_BreakEvenIsZero ==
    (/\ pc \in {"m_curve", "m_done"}
     /\ 0 <= premium
     /\ premium <= short_strike - long_strike
     /\ contracts >= 1) =>
        Pnl(spread_metrics.break_even, short_strike, long_strike, premium,
            contracts) = 0

\* a break-even strictly between the strikes
C12_Witness ==
    /\ pc = "m_done"
    /\ premium > 0
    /\ premium < short_strike - long_strike
    /\ spread_metrics.break_even > long_strike
    /\ spread_metrics.break_even < short_strike
    /\ Pnl(spread_metrics.break_even, short_strike, long_strike, premium,
           contracts) = 0

----------------------------------------------------------------------------
(* get_stock_data *)

\* max_retries = 3
MaxRetries == 3

GS_Unchanged ==
    UNCHANGED <<today, levels, events, dte, current_price, support_levels,
                iv_percentile, i, risk_score, reasons, risk_level, ar_ret,
                sidebar, plan>>

\* stock.history(period): it raises or returns an empty frame (then the
\* alternative source is asked), or returns a non-empty history (then the
\* retry loop starts with info = {})
GS_History ==
    /\ pc = "gs_entry"
    /\ \E r \in {"raises", "empty", "data"} :
          IF r = "data"
          THEN /\ hist' \in {Hist(b) : b \in SeqsUpTo(MainBars, MaxBars) \ {<<>>}}
               /\ pc' = "gs_retry"
          ELSE /\ hist' = IF r = "empty" THEN Hist(<<>>) ELSE hist
               /\ pc' = "gs_alt"
    /\ info' = EmptyInfo
    /\ attempt' = 0
    /\ UNCHANGED info_results
    /\ GS_Unchanged

\* one iteration of "for attempt in range(max_retries)": stock.info raises,
\* returns an empty dict, or returns the info
GS_Attempt ==
    /\ pc = "gs_retry"
    /\ attempt < MaxRetries
    /\ \E r \in {"raises", "empty", "info"} :
          /\ info_results' = Append(info_results, r)
          /\ info' = IF r = "info" THEN FullInfo(ticker)
                     ELSE IF r = "empty" THEN EmptyInfo
                     ELSE IF attempt = MaxRetries - 1
                          THEN MinimalInfo(ticker, LastClose(hist.bars))
                     ELSE info
          /\ pc' = IF r = "info" \/ attempt + 1 >= MaxRetries
                   THEN "gs_done" ELSE "gs_retry"
    /\ attempt' = attempt + 1
    /\ UNCHANGED hist
    /\ GS_Unchanged

\* return fetch_stock_data_alternative(ticker): a mock history around the
\* scraped price with the minimal info, or (None, None)
GS_Alternative ==
    /\ pc = "gs_alt"
    /\ \/ /\ hist' = HistNone
          /\ info' = NoneInfo
       \/ /\ hist' \in {Hist(b) : b \in SeqsUpTo(MainBars, MaxBars) \ {<<>>}}
          /\ \E b \in MainBars : info' = MinimalInfo(ticker, b.Close)
    /\ pc' = "gs_done"
    /\ UNCHANGED <<attempt, info_results>>
    /\ GS_Unchanged

InitFetch ==
    /\ pc = "gs_entry"
    /\ ticker \in MainTickers
    /\ hist = HistNone
    /\ NoFetch
    /\ capital = 0
    /\ max_risk_pct = 0
    /\ strike_distance = 0
    /\ spread_width = 0
    /\ today = 0
    /\ levels = ZeroLevels
    /\ events = <<>>
    /\ dte = 0
    /\ current_price = 0
    /\ support_levels = <<>>
    /\ iv_percentile = 0
    /\ i = 1
    /\ risk_score = 0
    /\ reasons = <<>>
    /\ risk_level = ""
    /\ ar_ret = ""
    /\ NoPlan

NextFetch == GS_History \/ GS_Attempt \/ GS_Alternative

SpecFetch == InitFetch /\ [][NextFetch]_vars

----------------------------------------------------------------------------
(* Properties of get_stock_data, checked under SpecFetch *)

RetryLoopDone == pc = "gs_done" /\ Len(info_results) > 0

NoAttemptGaveInfo == \A k \in 1..Len(info_results) : info_results[k] # "info"

\* C14: with a non-empty price history the retry loop makes at most 3
\* attempts and stops at the first attempt that yields non-empty info; when
\* none of the 3 attempts yields non-empty info (each raises or returns an
\* empty result, in any mix) the function returns the minimal info record
\* {shortName: ticker, regularMarketPrice: last close}, never an empty info.
C14_RetryFallback ==
    RetryLoopDone =>
        /\ Len(info_results) <= 3
        /\ \A k \in 1..(Len(info_results) - 1) : info_results[k] # "info"
        /\ ~NoAttemptGaveInfo => info = FullInfo(ticker)
        /\ NoAttemptGaveInfo =>
               /\ Len(info_results) = 3
               /\ info = MinimalInfo(ticker, LastClose(hist.bars))
        /\ info # EmptyInfo

----------------------------------------------------------------------------
(* Properties of main, checked under Spec *)

SizingDone == pc \in {"m_crashed", "m_metrics", "m_curve", "m_done"}

\* C1: the strike / premium / contract-count computation fails with an
\* explicit InvalidSpreadParameters error if and only if premium >=
\* shortStrike - longStrike; then it neither divides by zero nor returns a
\* contract count; in every other case it returns a plan without error.
C1_InvalidSpreadParameters ==
    SizingDone =>
        /\ (error = "InvalidSpreadParameters") <=> (premium >= short_strike - long_strike)
        /\ premium >= short_strike - long_strike =>
               /\ error \notin {"ZeroDivisionError", "OverflowError"}
               /\ contracts = 0
        /\ premium < short_strike - long_strike =>
               /\ error = ""
               /\ contracts >= 1

\* C3: one run of main never ends in an unhandled failure: it ends in a
\* fully computed result or in a sentinel the presentation layer can show.
C3_NoUnhandledFailure == pc # "m_crashed" /\ error = ""

Sized == pc \in {"m_metrics", "m_curve", "m_done"}

\* capital * maxRiskPct / 100 and lossPerContract, both times 100, in ticks
Budget100 == capital * TicksPerDollar * max_risk_pct

Loss100 == (short_strike - long_strike - premium) * 100 * 100

\* C13: with lossPerContract > 0 the contract count is
\* max(1, floor(capital*maxRiskPct/100 / lossPerContract)), an integer >= 1;
\* with capital=1000, maxRiskPct=3 and lossPerContract=309 it is 1.
C13_ContractCount ==
    (Sized /\ Loss100 > 0) =>
        /\ contracts \in Nat
        /\ contracts >= 1
        /\ Budget100 < Loss100 => contracts = 1
        /\ Budget100 >= Loss100 =>
               /\ contracts * Loss100 <= Budget100
               /\ Budget100 < (contracts + 1) * Loss100
        /\ (capital = 1000 /\ max_risk_pct = 3
               /\ Loss100 = 309 * TicksPerDollar * 100) => contracts = 1

\* the scenario of the claim
C13_Witness ==
    /\ Sized
    /\ capital = 1000
    /\ max_risk_pct = 3
    /\ Loss100 = 309 * TicksPerDollar * 100
    /\ contracts = 1

MetricsDone == pc \in {"m_curve", "m_done"}

\* C15: when lossPerContract > 0 and the budget capital*maxRiskPct/100 covers
\* one contract, max_loss of calculate_put_spread for the chosen count is
\* within the budget; max_loss exceeds the budget only when the count was
\* raised to the minimum of 1 contract.
C15_MaxLossWithinBudget ==
    (MetricsDone /\ Loss100 > 0) =>
        /\ Budget100 >= Loss100 => spread_metrics.max_loss * 100 <= Budget100
        /\ spread_metrics.max_loss * 100 > Budget100 =>
               (contracts = 1 /\ Budget100 < Loss100)

\* 32 contracts of 309 dollars within a budget of 10000 dollars
C15_Witness ==
    /\ MetricsDone
    /\ contracts = 32
    /\ Budget100 = 10000 * TicksPerDollar * 100
    /\ spread_metrics.max_loss = 32 * 309 * TicksPerDollar
    /\ spread_metrics.max_loss * 100 <= Budget100

----------------------------------------------------------------------------
(* Properties of calculate_support_resistance, checked under SpecLevels *)

LevelsComputed == pc = "sr_done" /\ ~hist.none /\ Len(hist.bars) > 0

\* C9: for a non-empty series of well-formed bars the returned pivot is
\* exactly (maxHigh + minLow + lastClose) / 3, and resistance_i >= pivot >=
\* support_i for i = 1, 2.
C9_PivotAndSides ==
    LevelsComputed =>
        LET bars == hist.bars IN
        /\ \E h \in 1..Len(bars), l \in 1..Len(bars) :
               /\ \A k \in 1..Len(bars) : bars[k].High <= bars[h].High
               /\ \A k \in 1..Len(bars) : bars[k].Low >= bars[l].Low
               /\ 3 * levels.pivot = bars[h].High + bars[l].Low + bars[Len(bars)].Close
        /\ \A k \in 1..2 :
               /\ levels.resistance[k] >= levels.pivot
               /\ levels.pivot >= levels.support[k]

\* the highest high and the lowest low are not in the first bar
C9_Witness ==
    /\ LevelsComputed
    /\ Len(hist.bars) = 2
    /\ hist.bars[2].High > hist.bars[1].High
    /\ hist.bars[2].Low < hist.bars[1].Low
    /\ levels.pivot > 0
    /\ levels.resistance[1] > levels.pivot
    /\ levels.pivot > levels.support[1]

\* C10: in the levels of a non-empty series each pair lists the level nearer
\* to the pivot first: support2 <= support1 and resistance1 <= resistance2.
C10_NearerLevelFirst ==
    LevelsComputed =>
        /\ Abs(levels.support[1] - levels.pivot) <= Abs(levels.support[2] - levels.pivot)
        /\ Abs(levels.resistance[1] - levels.pivot)
               <= Abs(levels.resistance[2] - levels.pivot)
        /\ levels.support[2] <= levels.support[1]
        /\ levels.resistance[1] <= levels.resistance[2]

C10_Witness ==
    /\ LevelsComputed
    /\ levels.support[2] < levels.support[1]
    /\ levels.resistance[1] < levels.resistance[2]

----------------------------------------------------------------------------
(* Properties of assess_risk, checked under SpecRisk *)

InvalidPriceResult ==
    /\ risk_level = "High"
    /\ risk_score = 100
    /\ reasons = <<Reason("invalid_price", "", 0)>>

\* C2: assess_risk called with current_price = 0 returns exactly
\* ("High", 100, ["Invalid price data"]) whatever the other arguments are,
\* and none of the event, support and IV checks runs.
C2_ZeroPriceSentinel ==
    current_price = 0 =>
        /\ pc \in {"ar_entry", "ar_done"}
        /\ pc = "ar_done" => InvalidPriceResult

C2_Witness ==
    /\ pc = "ar_done"
    /\ current_price = 0
    /\ Len(events) > 0
    /\ \E k \in 1..Len(events) : EventInWindow(events[k], today, dte)
    /\ support_levels = <<99, 102>>
    /\ iv_percentile < 30
    /\ InvalidPriceResult

\* C4: for a non-zero price the returned score is within 0..100 and the
\* returned level is High exactly when score >= 50, Medium exactly when
\* 25 <= score < 50, Low exactly when score < 25.
C4_ScoreClampedAndLevel ==
    (pc = "ar_done" /\ current_price # 0) =>
        /\ risk_score >= 0
        /\ risk_score <= 100
        /\ (risk_level = "High") <=> (risk_score >= 50)
        /\ (risk_level = "Medium") <=> (risk_score >= 25 /\ risk_score < 50)
        /\ (risk_level = "Low") <=> (risk_score < 25)

\* two High events in the window and a close support: 110 before the clamp
C4_Witness ==
    /\ pc = "ar_done"
    /\ current_price # 0
    /\ Len(reasons) = 3
    /\ reasons[3].kind = "close_support"
    /\ \A k \in 1..2 : events[k].importance = "High"
    /\ risk_score = 100
    /\ risk_level = "High"

\* C5: an event with 0 <= d <= dte (d = eventDate - today) adds 40 if its
\* importance is High and 20 otherwise, and appends one reason naming the
\* event and d; an event with d < 0 or d > dte changes neither the score nor
\* the reasons.  A single High event at today+10 gives +40 with dte = 14 and
\* nothing with dte = 5.
C5_EventStep ==
    pc = "ar_events" =>
        LET e == events[i]
            d == e.date - today IN
        IF d >= 0 /\ d <= dte
        THEN /\ risk_score' = risk_score + (IF e.importance = "High" THEN 40 ELSE 20)
             /\ Len(reasons') = Len(reasons) + 1
             /\ reasons'[Len(reasons')] = Reason("event", e.event, d)
             /\ \A k \in 1..Len(reasons) : reasons'[k] = reasons[k]
        ELSE /\ risk_score' = risk_score
             /\ reasons' = reasons

C5_Scenario ==
    (/\ pc = "ar_support"
     /\ Len(events) = 1
     /\ events[1].importance = "High"
     /\ events[1].date = today + 10) =>
        /\ dte = 14 => (risk_score = 40 /\ Len(reasons) = 1 /\ reasons[1].num = 10)
        /\ dte = 5 => (risk_score = 0 /\ reasons = <<>>)

C5_EventWindow == [][C5_EventStep]_vars /\ []C5_Scenario

C5_Witness ==
    /\ pc = "ar_support"
    /\ Len(events) = 1
    /\ events[1].importance = "High"
    /\ events[1].date = today + 10
    /\ dte = 14
    /\ risk_score = 40
    /\ reasons = <<Reason("event", "Earnings Release", 10)>>

\* k is the index min(..., key=abs(x - price)) picks: the first smallest
IsFirstClosest(s, cp, k) ==
    /\ \A j \in 1..Len(s) : Abs(s[k] - cp) <= Abs(s[j] - cp)
    /\ \A j \in 1..(k - 1) : Abs(s[j] - cp) > Abs(s[k] - cp)

\* C6: with a non-zero (here positive) price and a non-empty support list,
\* the support used is the first one with the smallest absolute difference to
\* the price; with distancePct = (price - support) / price * 100 the check
\* adds 30 when distancePct < 2 (negative distances included), 15 when
\* 2 <= distancePct < 5, and nothing when distancePct >= 5.
C6_SupportStep ==
    (pc = "ar_support" /\ Len(support_levels) > 0) =>
        \E k \in 1..Len(support_levels) :
            LET cs == support_levels[k]
                dist100 == (current_price - cs) * 100    \* distancePct * price
            IN
            /\ IsFirstClosest(support_levels, current_price, k)
            /\ dist100 < 2 * current_price =>
                   /\ risk_score' = risk_score + 30
                   /\ reasons' = Append(reasons, Reason("close_support", "", cs))
            /\ (dist100 >= 2 * current_price /\ dist100 < 5 * current_price) =>
                   /\ risk_score' = risk_score + 15
                   /\ reasons' = Append(reasons, Reason("moderate_support", "", cs))
            /\ dist100 >= 5 * current_price =>
                   /\ risk_score' = risk_score
                   /\ reasons' = reasons

C6_SupportProximity == [][C6_SupportStep]_vars

\* a tie (105 and 95 are both 5 away from 100) won by the first element,
\* which lies above the price: negative distance, +30
C6_Witness ==
    /\ pc = "ar_iv"
    /\ current_price = 100
    /\ support_levels = <<105, 95>>
    /\ events = <<>>
    /\ risk_score = 30
    /\ reasons = <<Reason("close_support", "", 105)>>

\* C7: the volatility check changes the unclamped score by -10 when
\* iv_percentile > 70, by +10 when iv_percentile < 30, and by 0 with no
\* reason appended when 30 <= iv_percentile <= 70.
C7_IVStep ==
    pc = "ar_iv" =>
        /\ iv_percentile > 70 =>
               (risk_score' = risk_score - 10 /\ Len(reasons') = Len(reasons) + 1)
        /\ iv_percentile < 30 =>
               (risk_score' = risk_score + 10 /\ Len(reasons') = Len(reasons) + 1)
        /\ (iv_percentile >= 30 /\ iv_percentile <= 70) =>
               (risk_score' = risk_score /\ reasons' = reasons)

C7_VolatilityCheck == [][C7_IVStep]_vars

C7_Witness ==
    /\ pc = "ar_final"
    /\ iv_percentile = 70
    /\ events = <<>>
    /\ support_levels = <<>>
    /\ risk_score = 0
    /\ reasons = <<>>

InWindowNow(e) == e.date - today >= 0 /\ e.date - today <= dte

EventReasonsExpected ==
    LET sel == SelectSeq(events, InWindowNow) IN
    [k \in 1..Len(sel) |-> Reason("event", sel[k].event, sel[k].date - today)]

SupportKinds == {"close_support", "moderate_support"}

IVKinds == {"high_iv", "low_iv"}

TailKinds(rs, n) == [k \in 1..(Len(rs) - n) |-> rs[n + k].kind]

\* C8: the returned reasons keep evaluation order: the reasons of the events
\* in the window, in the order of the input sequence, then at most one
\* support reason, then at most one volatility reason.
C8_ReasonsOrder ==
    (pc = "ar_done" /\ current_price # 0) =>
        LET n == Len(EventReasonsExpected) IN
        /\ Len(reasons) >= n
        /\ SubSeq(reasons, 1, n) = EventReasonsExpected
        /\ TailKinds(reasons, n) \in
               {<<>>} \cup {<<s>> : s \in SupportKinds} \cup {<<v>> : v \in IVKinds}
                      \cup {<<s, v>> : s \in SupportKinds, v \in IVKinds}

\* two different events in the window, a support reason and an IV reason
C8_Witness ==
    /\ pc = "ar_done"
    /\ current_price # 0
    /\ Len(reasons) = 4
    /\ reasons[1] # reasons[2]
    /\ reasons[1].kind = "event"
    /\ reasons[2].kind = "event"
    /\ reasons[3].kind = "moderate_support"
    /\ reasons[4].kind = "low_iv"

====
